---- MODULE Spec2Model ----
(***************************************************************************)
(* A model of src/app.py: the Flask service that converts an uploaded      *)
(* video to audio with ffmpeg, caches the converted file under the SHA-256 *)
(* of the upload, and evicts cache entries that have not been accessed for *)
(* CACHE_EXPIRY seconds.                                                   *)
(*                                                                         *)
(* Request handlers run in threads (app.run(threaded=True)); the cleanup   *)
(* task runs in its own daemon thread.  Each thread is modelled by a       *)
(* record with a program counter, and each action is one atomic step of    *)
(* the code: a step ends where the thread waits for cache_lock, or where   *)
(* it waits for the ffmpeg child process.                                  *)
(***************************************************************************)
EXTENDS Integers, Sequences, FiniteSets, TLC

(***************************************************************************)
(* Program constants.                                                      *)
(***************************************************************************)
MAX_FILE_SIZE == 524288000

CACHE_EXPIRY == 3600

(***************************************************************************)
(* Bounds of the model.                                                    *)
(***************************************************************************)
\* time.time() takes the values k * CACHE_EXPIRY and k * CACHE_EXPIRY + 1 for
\* k in 0 .. MaxEpoch, so that one sweep meets an entry whose age is exactly
\* CACHE_EXPIRY (not yet expired) and one whose age is CACHE_EXPIRY + 1.
MaxEpoch == 1

\* The number of uuid4() values drawn by generate_unique_filename.
MaxUuid == 2

\* The quota of the rate limiter the specification describes: the calls a
\* client may start within one window.  The program has no such limit.
RateQuota == 3

\* None, as the value of a form field that is missing.
None == "None"

\* None, as the value of a local that holds a path, a file name or a digest.
NoPath == <<>>

Unlocked == "unlocked"

ConvertThreads == {"convert_1", "convert_2"}

SweepThreads == {"cleanup_task"}

ReaderThreads == {"reader"}

\* The times time.time() can return.
Times == UNION {{k * CACHE_EXPIRY, k * CACHE_EXPIRY + 1} : k \in 0..MaxEpoch}

\* The uploads a client may send: the content of the file.  Content 3 is
\* one byte larger than MAX_FILE_SIZE.
Contents == {1, 2, 3}

\* video_file.tell() after seek(0, SEEK_END): the size of an upload.
FileSize(bytes) ==
    CASE bytes = 1 -> 1
      [] bytes = 2 -> MAX_FILE_SIZE
      [] OTHER     -> MAX_FILE_SIZE + 1

\* The values of the form field cf-turnstile-response, with the answer of
\* the verification service: "" is a missing token.
Tokens == {"", "rejected", "accepted"}

\* The form field format of a request: missing, each value of the
\* allow-list, and one outside it.
RequestFormats == {None, "mp3", "aac", "wav", "ogg", "flac"}

\* The form field bitrate of a request, likewise.
RequestBitrates == {None, "128k", "192k", "256k", "320k", "64k"}

\* The form fields <<format, bitrate>> of a request.
ReqParams == RequestFormats \X RequestBitrates

\* request.files['video'].filename: "" when no file was selected.
Filenames == {"", "clip.mp4"}

\* request.remote_addr: the clients that send requests.
Clients == {"client_1", "client_2"}

\* The client whose calls the history variable admitted counts.
RateClient == "client_1"

\* The requests a client may send to /convert: one without a token, one
\* with a token the verification rejects, one without a file, one without a
\* file name, and the well-formed ones with each content and parameters.
ConvertRequests ==
    {r \in [client : Clients, token : Tokens, has_video : BOOLEAN,
            filename : Filenames, bytes : Contents, params : ReqParams] :
        \/ r.token = "accepted" /\ r.has_video /\ r.filename # ""
        \/ /\ r.bytes = 1 /\ r.params = <<None, None>>
           /\ \/ r.token # "accepted" /\ r.has_video /\ r.filename # ""
              \/ r.token = "accepted" /\ ~r.has_video /\ r.filename = ""
              \/ r.token = "accepted" /\ r.has_video /\ r.filename = ""}

\* Outcomes of the ffmpeg child process: its exit code, and what it leaves
\* at output_path ("none": no file, "empty": a file of size 0, "data": a
\* file with content).
FfmpegOutcomes ==
    {<<0, "data">>, <<0, "empty">>, <<0, "none">>, <<1, "none">>, <<1, "data">>}

(***************************************************************************)
(* Pure functions of the program.                                          *)
(***************************************************************************)
\* hashlib.sha256 of the content: equal contents have equal digests, and
\* distinct contents have distinct digests.
generate_file_hash(bytes) == <<"sha256", bytes>>

\* os.path.splitext(name)[1] of the one non-empty upload name.
Extension(name) == IF name = "clip.mp4" THEN "mp4" ELSE ""

\* A path is <<directory, stem, extension>>.  generate_unique_filename
\* gives the stem: the sanitized upload name followed by the uuid drawn,
\* kept here as the uuid alone.
Path(dir, stem, ext) == <<dir, stem, ext>>

basename(path) == <<path[2], path[3]>>

\* Line 258 without the check of lines 262-263.
NormFormat_Unchecked(f) == IF f = None THEN "mp3" ELSE f

\* Lines 258-266: the format and bitrate the transcode is invoked with.
NormFormat(f) ==
    LET format_type == IF f = None THEN "mp3" ELSE f
    IN  IF format_type \notin {"mp3", "aac", "wav", "ogg"} THEN "mp3" ELSE format_type

NormBitrate(b) ==
    LET bitrate == IF b = None THEN "192k" ELSE b
    IN  IF bitrate \notin {"128k", "192k", "256k", "320k"} THEN "192k" ELSE bitrate

(***************************************************************************)
(* The file system: a function from the paths that exist to their sizes.   *)
(***************************************************************************)
exists(f, path) == path \in DOMAIN f

WriteFile(f, path, size) ==
    [p \in DOMAIN f \cup {path} |-> IF p = path THEN size ELSE f[p]]

RemoveFile(f, path) == [p \in DOMAIN f \ {path} |-> f[p]]

(***************************************************************************)
(* file_cache: a Python dict, kept as the sequence of its items in         *)
(* insertion order.  An item is [key, output_path, last_accessed].         *)
(***************************************************************************)
Keys(c) == {c[i].key : i \in DOMAIN c}

IndexOf(c, k) == CHOOSE i \in DOMAIN c : c[i].key = k

GetItem(c, k) == c[IndexOf(c, k)]

\* c[k] = {"output_path": path, "last_accessed": t}: replaces the value of
\* an existing key in place, appends a new key.
SetItem(c, k, path, t) ==
    LET item == [key |-> k, output_path |-> path, last_accessed |-> t]
    IN  IF k \in Keys(c) THEN [c EXCEPT ![IndexOf(c, k)] = item] ELSE Append(c, item)

\* A touch that sets last_accessed in every item.
Touch_All(c, k, t) == [i \in DOMAIN c |-> [c[i] EXCEPT !.last_accessed = t]]

\* A touch that writes nothing.
Touch_Nothing(c, k, t) == c

\* c[k]["last_accessed"] = t
Touch(c, k, t) == [c EXCEPT ![IndexOf(c, k)].last_accessed = t]

\* del c[k] for every k in ks
DelItems(c, ks) == SelectSeq(c, LAMBDA item : item.key \notin ks)

VARIABLES
    now,         \* the value time.time() returns
    fs,          \* the files of UPLOAD_DIR and OUTPUT_DIR, with their sizes
    file_cache,  \* the dict file_cache
    cache_lock,  \* the thread holding cache_lock, or Unlocked
    uuids,       \* the number of uuid4() values drawn so far
    conv,        \* the convert_video call of each request thread
    sweep,       \* the cleanup_expired_files call of each sweeping thread
    reader,      \* the /download, /files or /status call of each reader thread
    inserted,    \* history: per digest, the paths inserted since its last eviction
    completed,   \* history: per digest, the artifacts inserted since its last
                 \*          eviction whose calls have returned (cached = False)
    admitted     \* history: the calls of RateClient let into the pipeline
                 \*          (line 220) since time.time() last moved on, counted
                 \*          up to RateQuota

vars == <<now, fs, file_cache, cache_lock, uuids, conv, sweep, reader,
          inserted, completed, admitted>>

Digests == {generate_file_hash(b) : b \in Contents}

(***************************************************************************)
(* The state after the module is loaded and the cleanup thread is started. *)
(***************************************************************************)
NoResponse ==
    [status |-> 0, success |-> FALSE, filename |-> NoPath, format |-> None,
     bitrate |-> None, cached |-> FALSE, error |-> ""]

\* A convert_video call before line 179: the request, the locals, and four
\* notes on what the call has done (probed: it has started ffprobe;
\* transcoded: it has started ffmpeg;
\* wrote: it has changed file_cache; prior: the artifacts that calls for
\* the same content had returned when this one arrived).
NewCall ==
    [pc |-> "idle", client |-> "", bytes |-> 0, params |-> <<None, None>>,
     upload_name |-> "", ffmpeg_command |-> <<>>,
     file_hash |-> NoPath, video_path |-> NoPath, output_path |-> NoPath,
     returncode |-> 0, probed |-> FALSE, transcoded |-> FALSE, wrote |-> FALSE,
     prior |-> {},
     response |-> NoResponse]

NewSweep == [pc |-> "sleep", current_time |-> 0, i |-> 1, expired_keys |-> <<>>,
             failed |-> {}]

NewReader == [pc |-> "idle", route |-> "", filename |-> NoPath]

Init ==
    /\ now = 0
    /\ fs = [p \in {} |-> 0]
    /\ file_cache = <<>>
    /\ cache_lock = Unlocked
    /\ uuids = 0
    /\ conv = [t \in ConvertThreads |-> NewCall]
    /\ sweep = [s \in SweepThreads |-> NewSweep]
    /\ reader = [r \in ReaderThreads |-> NewReader]
    /\ inserted = [d \in Digests |-> {}]
    /\ completed = [d \in Digests |-> {}]
    /\ admitted = 0

\* time.time() moves on.
Tick ==
    /\ \E t \in Times : t > now /\ now' = t
    /\ admitted' = 0
    /\ UNCHANGED <<fs, file_cache, cache_lock, uuids, conv, sweep, reader,
                   inserted, completed>>

(***************************************************************************)
(* cache_lock                                                              *)
(***************************************************************************)
\* with cache_lock: entering blocks until no thread holds the lock.
Acquire(thread) ==
    /\ cache_lock = Unlocked
    /\ cache_lock' = thread

\* Leaving the with block.
Release(thread) ==
    /\ cache_lock = thread
    /\ cache_lock' = Unlocked

(***************************************************************************)
(* /convert                                                                *)
(***************************************************************************)
Failure(code, message) ==
    [status |-> code, success |-> FALSE, filename |-> NoPath, format |-> None,
     bitrate |-> None, cached |-> FALSE, error |-> message]

\* The call returns: its locals are gone, and the response stays with what
\* the call has left behind.
Return(call, response) ==
    [NewCall EXCEPT
       !.pc = "done",
       !.video_path = call.video_path,
       !.returncode = call.returncode,
       !.probed = call.probed,
       !.transcoded = call.transcoded,
       !.wrote = call.wrote,
       !.response = response]

\* Lines 185-218: the response that rejects the request before the
\* pipeline starts, NoResponse when the request is let through.
Rejection(req) ==
    IF req.token = "" THEN Failure(400, "Security verification required")
    ELSE IF req.token # "accepted" THEN Failure(403, "Security verification failed")
    ELSE IF ~req.has_video THEN Failure(400, "No file uploaded")
    ELSE IF req.filename = "" THEN Failure(400, "No file selected")
    ELSE IF FileSize(req.bytes) > MAX_FILE_SIZE THEN Failure(400, "File too large")
    ELSE NoResponse

\* Lines 179-222: a request arrives; it is rejected, or its content is
\* hashed and the call goes on to the cache lookup.
ConvertRequest(t, req) ==
    /\ conv[t].pc \in {"idle", "done"}
    /\ conv' = [conv EXCEPT ![t] =
         IF Rejection(req) # NoResponse
         THEN Return(NewCall, Rejection(req))
         ELSE [NewCall EXCEPT
                 !.pc = "lookup_wait",
                 !.client = req.client,
                 !.bytes = req.bytes,
                 !.params = req.params,
                 !.upload_name = req.filename,
                 !.file_hash = generate_file_hash(req.bytes),
                 !.prior = completed[generate_file_hash(req.bytes)]]]
    /\ admitted' = IF /\ req.client = RateClient
                      /\ Rejection(req) = NoResponse
                      /\ admitted < RateQuota
                   THEN admitted + 1
                   ELSE admitted
    /\ UNCHANGED <<now, fs, file_cache, cache_lock, uuids, sweep, reader,
                   inserted, completed>>

\* Line 225: with cache_lock.
ConvertLookupAcquire(t) ==
    /\ conv[t].pc = "lookup_wait"
    /\ Acquire(t)
    /\ conv' = [conv EXCEPT ![t].pc = "lookup"]
    /\ UNCHANGED <<now, fs, file_cache, uuids, sweep, reader,
                   inserted, completed, admitted>>

\* Line 226: the condition of a cache hit.
IsHit(c, f, file_hash) ==
    /\ file_hash \in Keys(c)
    /\ exists(f, GetItem(c, file_hash).output_path)

\* The lookup with the rest of the call inside the with block: on a miss the
\* lock stays with the call.
ConvertLookup_KeepsLock(t) ==
    /\ conv[t].pc = "lookup"
    /\ cache_lock = t
    /\ ~IsHit(file_cache, fs, conv[t].file_hash)
    /\ conv' = [conv EXCEPT ![t].pc = "save"]
    /\ UNCHANGED <<now, fs, file_cache, cache_lock, uuids, sweep, reader,
                   inserted, completed, admitted>>

\* A lookup that takes an entry for a hit only when its file has the format
\* the call asks for.
ConvertLookup_ByParams(t) ==
    /\ conv[t].pc = "lookup"
    /\ Release(t)
    /\ IF /\ IsHit(file_cache, fs, conv[t].file_hash)
          /\ GetItem(file_cache, conv[t].file_hash).output_path[3] = NormFormat(conv[t].params[1])
       THEN /\ file_cache' = Touch(file_cache, conv[t].file_hash, now)
            /\ conv' = [conv EXCEPT ![t] =
                 Return([conv[t] EXCEPT !.wrote = TRUE],
                        [NoResponse EXCEPT
                           !.status = 200,
                           !.success = TRUE,
                           !.filename = basename(GetItem(file_cache, conv[t].file_hash).output_path),
                           !.cached = TRUE])]
       ELSE /\ file_cache' = file_cache
            /\ conv' = [conv EXCEPT ![t].pc = "save"]
    /\ UNCHANGED <<now, fs, uuids, sweep, reader, inserted, completed, admitted>>

\* Lines 226-237: on a hit the entry is touched and its file name returned;
\* on a miss the call goes on.  Either way the lock is released.
ConvertLookup(t) ==
    /\ conv[t].pc = "lookup"
    /\ Release(t)
    /\ IF IsHit(file_cache, fs, conv[t].file_hash)
       THEN /\ file_cache' = Touch(file_cache, conv[t].file_hash, now)
            /\ conv' = [conv EXCEPT ![t] =
                 Return([conv[t] EXCEPT !.wrote = TRUE],
                        [NoResponse EXCEPT
                           !.status = 200,
                           !.success = TRUE,
                           !.filename = basename(GetItem(file_cache, conv[t].file_hash).output_path),
                           !.cached = TRUE])]
       ELSE /\ file_cache' = file_cache
            /\ conv' = [conv EXCEPT ![t].pc = "save"]
    /\ UNCHANGED <<now, fs, uuids, sweep, reader, inserted, completed, admitted>>

\* The except block without its os.remove.
ExceptHandler_Leaves(f, call) == f

\* Lines 328-337: the except block of convert_video, as the files it leaves.
ExceptHandler(f, call) ==
    IF call.video_path # NoPath /\ exists(f, call.video_path)
    THEN RemoveFile(f, call.video_path)
    ELSE f

\* Lines 239-251 with names made of the upload name alone, without uuid4.
ConvertSave_SameName(t) ==
    /\ conv[t].pc = "save"
    /\ uuids < MaxUuid
    /\ uuids' = uuids + 1
    /\ LET video_path == Path("uploads", 1, Extension(conv[t].upload_name))
       IN  /\ conv' = [conv EXCEPT
                ![t].pc = "ffprobe",
                ![t].video_path = video_path,
                ![t].output_path = Path("converted", 1, "mp3"),
                ![t].probed = TRUE]
           /\ fs' = WriteFile(fs, video_path, FileSize(conv[t].bytes))
    /\ UNCHANGED <<now, file_cache, cache_lock, sweep, reader,
                   inserted, completed, admitted>>

\* Lines 239-251: the names are generated (the output name with the
\* extension mp3), the upload is saved, and get_video_duration starts the
\* ffprobe child and waits for it (line 107).
ConvertSave(t) ==
    /\ conv[t].pc = "save"
    /\ uuids < MaxUuid
    /\ uuids' = uuids + 1
    /\ LET unique_id == uuids + 1
           video_path == Path("uploads", unique_id, Extension(conv[t].upload_name))
       IN  /\ conv' = [conv EXCEPT
                ![t].pc = "ffprobe",
                ![t].video_path = video_path,
                ![t].output_path = Path("converted", unique_id, "mp3"),
                ![t].probed = TRUE]
           /\ fs' = WriteFile(fs, video_path, FileSize(conv[t].bytes))
    /\ UNCHANGED <<now, file_cache, cache_lock, sweep, reader,
                   inserted, completed, admitted>>

\* Lines 258-289: the format and bitrate are normalized, the output path
\* follows the format, and the ffmpeg child is started.
FfmpegStarted(call) ==
    LET format_type == NormFormat(call.params[1])
        bitrate == NormBitrate(call.params[2])
    IN  [call EXCEPT
           !.pc = "ffmpeg",
           !.output_path = IF format_type # "mp3"
                           THEN Path("converted", call.video_path[2], format_type)
                           ELSE @,
           !.ffmpeg_command = <<bitrate, format_type>>,
           !.transcoded = TRUE]

\* Lines 107-109, 251-289: the ffprobe child exits.  What
\* get_video_duration returns, the duration or 0 after an exception, is
\* logged and put in the response, and decides nothing.  The call goes on
\* to start ffmpeg.
ProbeExit(t) ==
    /\ conv[t].pc = "ffprobe"
    /\ conv' = [conv EXCEPT ![t] = FfmpegStarted(conv[t])]
    /\ UNCHANGED <<now, fs, file_cache, cache_lock, uuids, sweep, reader,
                   inserted, completed, admitted>>

\* What the ffmpeg child leaves in the file system.
FfmpegOutput(f, output_path, out) ==
    CASE out = "data"  -> WriteFile(f, output_path, 1)
      [] out = "empty" -> WriteFile(f, output_path, 0)
      [] OTHER         -> f

\* Lines 296-302: the exception raised after the child has exited, "" when
\* the conversion counts as successful.
ConversionError(f, returncode, output_path) ==
    IF returncode # 0 THEN "FFmpeg conversion failed"
    ELSE IF ~exists(f, output_path) THEN "Output file was not created"
    ELSE ""

\* Lines 289-302: subprocess.run returns when the child exits.  The result
\* is checked; a failure is raised into the except block of lines 328-337.
FfmpegExit(t, outcome) ==
    /\ conv[t].pc = "ffmpeg"
    /\ LET after == FfmpegOutput(fs, conv[t].output_path, outcome[2])
           error == ConversionError(after, outcome[1], conv[t].output_path)
       IN  IF error # ""
           THEN /\ fs' = ExceptHandler(after, conv[t])
                /\ conv' = [conv EXCEPT ![t] =
                     Return([conv[t] EXCEPT !.returncode = outcome[1]],
                            Failure(500, error))]
           ELSE /\ fs' = after
                /\ conv' = [conv EXCEPT
                     ![t].pc = "insert_wait",
                     ![t].returncode = outcome[1]]
    /\ UNCHANGED <<now, file_cache, cache_lock, uuids, sweep, reader,
                   inserted, completed, admitted>>

\* Line 305: with cache_lock.
ConvertInsertAcquire(t) ==
    /\ conv[t].pc = "insert_wait"
    /\ Acquire(t)
    /\ conv' = [conv EXCEPT ![t].pc = "insert"]
    /\ UNCHANGED <<now, fs, file_cache, uuids, sweep, reader,
                   inserted, completed, admitted>>

\* Lines 306-309: the entry of the digest is set, whether or not the digest
\* has an entry already.
ConvertInsert(t) ==
    /\ conv[t].pc = "insert"
    /\ Release(t)
    /\ file_cache' = SetItem(file_cache, conv[t].file_hash, conv[t].output_path, now)
    /\ inserted' = [inserted EXCEPT ![conv[t].file_hash] = @ \cup {conv[t].output_path}]
    /\ conv' = [conv EXCEPT ![t].pc = "respond", ![t].wrote = TRUE]
    /\ UNCHANGED <<now, fs, uuids, sweep, reader, completed, admitted>>

\* Lines 311-326: the upload is removed and the success response returned.
\* os.remove raises FileNotFoundError when the upload is gone; the except
\* block of lines 328-337 then returns the failure, and finds no file to
\* remove.
ConvertRespond(t) ==
    /\ conv[t].pc = "respond"
    /\ IF exists(fs, conv[t].video_path)
       THEN /\ fs' = RemoveFile(fs, conv[t].video_path)
            /\ conv' = [conv EXCEPT ![t] =
                 Return(conv[t],
                        [NoResponse EXCEPT
                           !.status = 200,
                           !.success = TRUE,
                           !.filename = basename(conv[t].output_path),
                           !.format = NormFormat(conv[t].params[1]),
                           !.bitrate = NormBitrate(conv[t].params[2])])]
            /\ completed' = [completed EXCEPT
                 ![conv[t].file_hash] =
                     IF conv[t].output_path \in inserted[conv[t].file_hash]
                     THEN @ \cup {basename(conv[t].output_path)}
                     ELSE @]
       ELSE /\ fs' = ExceptHandler(fs, conv[t])
            /\ conv' = [conv EXCEPT ![t] =
                 Return(conv[t], Failure(500, "No such file or directory"))]
            /\ completed' = completed
    /\ UNCHANGED <<now, file_cache, cache_lock, uuids, sweep, reader, inserted, admitted>>

(***************************************************************************)
(* cleanup_expired_files, run by the cleanup thread every 5 minutes and by *)
(* /clear-cache.                                                           *)
(***************************************************************************)
\* Line 135 with >= for >.
Expired_Inclusive(current_time, data) ==
    current_time - data.last_accessed >= CACHE_EXPIRY

\* Line 135: the entry has not been accessed for CACHE_EXPIRY seconds.
Expired(current_time, data) == current_time - data.last_accessed > CACHE_EXPIRY

\* Line 131: the time is read before the lock is taken.
SweepStart(s) ==
    /\ sweep[s].pc = "sleep"
    /\ sweep' = [sweep EXCEPT ![s] = [NewSweep EXCEPT !.pc = "lock_wait",
                                                      !.current_time = now]]
    /\ UNCHANGED <<now, fs, file_cache, cache_lock, uuids, conv, reader,
                   inserted, completed, admitted>>

\* Lines 132-133: with cache_lock.
SweepAcquire(s) ==
    /\ sweep[s].pc = "lock_wait"
    /\ Acquire(s)
    /\ sweep' = [sweep EXCEPT ![s].pc = "iterate"]
    /\ UNCHANGED <<now, fs, file_cache, uuids, conv, reader,
                   inserted, completed, admitted>>

\* Lines 134-140: one turn of the loop over file_cache.items(), with
\* os.remove succeeding: the file of an expired entry is removed if it
\* exists, and the key is noted.
SweepIterate(s) ==
    /\ sweep[s].pc = "iterate"
    /\ sweep[s].i <= Len(file_cache)
    /\ LET data == file_cache[sweep[s].i]
       IN  IF Expired(sweep[s].current_time, data)
           THEN /\ fs' = IF exists(fs, data.output_path)
                         THEN RemoveFile(fs, data.output_path)
                         ELSE fs
                /\ sweep' = [sweep EXCEPT
                     ![s].i = @ + 1,
                     ![s].expired_keys = Append(@, data.key)]
           ELSE /\ sweep' = [sweep EXCEPT ![s].i = @ + 1]
                /\ fs' = fs
    /\ UNCHANGED <<now, file_cache, cache_lock, uuids, conv, reader,
                   inserted, completed, admitted>>

\* Lines 136-139 without the try of line 136: the exception of os.remove
\* leaves the with block and ends the call.
SweepRemoveFails_Aborts(s) ==
    /\ sweep[s].pc = "iterate"
    /\ sweep[s].i <= Len(file_cache)
    /\ LET data == file_cache[sweep[s].i]
       IN  /\ Expired(sweep[s].current_time, data)
           /\ exists(fs, data.output_path)
    /\ Release(s)
    /\ sweep' = [sweep EXCEPT ![s] = [NewSweep EXCEPT !.pc = "temp",
                                                      !.current_time = sweep[s].current_time]]
    /\ UNCHANGED <<now, fs, file_cache, uuids, conv, reader,
                   inserted, completed, admitted>>

\* Lines 136-142 when os.remove raises: the error is logged, the key is not
\* noted, and the loop goes on.
SweepRemoveFails(s) ==
    /\ sweep[s].pc = "iterate"
    /\ sweep[s].i <= Len(file_cache)
    /\ LET data == file_cache[sweep[s].i]
       IN  /\ Expired(sweep[s].current_time, data)
           /\ exists(fs, data.output_path)
           /\ sweep' = [sweep EXCEPT ![s].i = @ + 1,
                                     ![s].failed = @ \cup {data.key}]
    /\ UNCHANGED <<now, fs, file_cache, cache_lock, uuids, conv, reader,
                   inserted, completed, admitted>>

\* Lines 144-146: the noted keys are deleted and the lock is released.
SweepDelete(s) ==
    /\ sweep[s].pc = "iterate"
    /\ sweep[s].i > Len(file_cache)
    /\ Release(s)
    /\ LET expired_keys == {sweep[s].expired_keys[j] : j \in DOMAIN sweep[s].expired_keys}
       IN  /\ file_cache' = DelItems(file_cache, expired_keys)
           /\ inserted' = [d \in Digests |-> IF d \in expired_keys THEN {} ELSE inserted[d]]
           /\ completed' = [d \in Digests |-> IF d \in expired_keys THEN {} ELSE completed[d]]
    /\ sweep' = [sweep EXCEPT ![s] = [NewSweep EXCEPT !.pc = "temp",
                                                      !.current_time = sweep[s].current_time]]
    /\ UNCHANGED <<now, fs, uuids, conv, reader, admitted>>

\* A cleanup thread that runs cleanup_expired_files once and ends.
SweepTemp_Once(s) ==
    /\ sweep[s].pc = "temp"
    /\ sweep' = [sweep EXCEPT ![s] = [NewSweep EXCEPT !.pc = "ended"]]
    /\ UNCHANGED <<now, fs, file_cache, cache_lock, uuids, conv, reader,
                   inserted, completed, admitted>>

\* Lines 148-158: the files of TEMP_DIR older than CACHE_EXPIRY are removed.
\* No code of the program writes to TEMP_DIR, so the directory is empty.
\* The call returns; the cleanup thread sleeps until its next run.
SweepTemp(s) ==
    /\ sweep[s].pc = "temp"
    /\ sweep' = [sweep EXCEPT ![s] = NewSweep]
    /\ UNCHANGED <<now, fs, file_cache, cache_lock, uuids, conv, reader,
                   inserted, completed, admitted>>

(***************************************************************************)
(* /download/<filename>, /files and /status                                *)
(***************************************************************************)
\* The file names a client may ask for.
OutputNames == {<<u, "mp3">> : u \in 1..MaxUuid}

\* Lines 340-345 of download_file, 375-378 of list_files, 386-388 of
\* status: the request arrives and the handler waits for the lock.
ReaderRequest(r, route, filename) ==
    /\ reader[r].pc = "idle"
    /\ reader' = [reader EXCEPT ![r] =
         [NewReader EXCEPT !.pc = "lock_wait", !.route = route,
                           !.filename = IF route = "download" THEN filename ELSE NoPath]]
    /\ UNCHANGED <<now, fs, file_cache, cache_lock, uuids, conv, sweep,
                   inserted, completed, admitted>>

\* A handler that reads file_cache without waiting for the lock.
ReaderAcquire_Unlocked(r) ==
    /\ reader[r].pc = "lock_wait"
    /\ cache_lock' = r
    /\ reader' = [reader EXCEPT ![r].pc = "locked"]
    /\ UNCHANGED <<now, fs, file_cache, uuids, conv, sweep, inserted, completed, admitted>>

\* Line 345 of download_file, 378 of list_files, 388 of status: with
\* cache_lock.
ReaderAcquire(r) ==
    /\ reader[r].pc = "lock_wait"
    /\ Acquire(r)
    /\ reader' = [reader EXCEPT ![r].pc = "locked"]
    /\ UNCHANGED <<now, fs, file_cache, uuids, conv, sweep,
                   inserted, completed, admitted>>

\* Lines 346-349: the indexes of the items whose file has the name asked for.
Matches(c, filename) == {i \in DOMAIN c : basename(c[i].output_path) = filename}

\* The first of them: the loop breaks there.
FirstMatch(c, filename) ==
    CHOOSE i \in Matches(c, filename) : \A j \in Matches(c, filename) : i <= j

\* Lines 345-349: the entry of the file is touched.
DownloadTouch(r) ==
    /\ reader[r].pc = "locked"
    /\ reader[r].route = "download"
    /\ Release(r)
    /\ file_cache' =
         IF Matches(file_cache, reader[r].filename) # {}
         THEN [file_cache EXCEPT
                 ![FirstMatch(file_cache, reader[r].filename)].last_accessed = now]
         ELSE file_cache
    /\ reader' = [reader EXCEPT ![r].pc = "exists"]
    /\ UNCHANGED <<now, fs, uuids, conv, sweep, inserted, completed, admitted>>

\* Lines 342, 351-363: the status of the response for the file asked for.
DownloadStatus(f, filename) ==
    IF exists(f, Path("converted", filename[1], filename[2])) THEN 200 ELSE 404

\* Lines 351, 362-363: os.path.exists(file_path); 404 is returned when the
\* file is not there.
DownloadExists(r) ==
    /\ reader[r].pc = "exists"
    /\ reader' = [reader EXCEPT ![r] =
         IF DownloadStatus(fs, reader[r].filename) = 200
         THEN [@ EXCEPT !.pc = "send_file"]
         ELSE NewReader]
    /\ UNCHANGED <<now, fs, file_cache, cache_lock, uuids, conv, sweep,
                   inserted, completed, admitted>>

\* Lines 352-361: send_file opens the file; it raises when the file is gone.
DownloadSendFile(r) ==
    /\ reader[r].pc = "send_file"
    /\ reader' = [reader EXCEPT ![r] = NewReader]
    /\ UNCHANGED <<now, fs, file_cache, cache_lock, uuids, conv, sweep,
                   inserted, completed, admitted>>

\* Lines 377-383: the list /files returns, the names of the cached files
\* that exist.
ListFilesResponse(c, f) ==
    LET kept == SelectSeq(c, LAMBDA data : exists(f, data.output_path))
    IN  [i \in DOMAIN kept |-> basename(kept[i].output_path)]

\* Lines 389, 392-400: the JSON /status returns.  cached_files, the list of
\* line 390, is computed and not returned.
StatusResponse(c, ffmpeg_version) ==
    [status |-> "running",
     ffmpeg_version |-> ffmpeg_version,
     cached_files_count |-> Len(c),
     cache_expiry_seconds |-> CACHE_EXPIRY,
     max_file_size_mb |-> MAX_FILE_SIZE \div (1024 * 1024),
     turnstile_enabled |-> TRUE,
     turnstile_site_key |-> "0x4AAAAAABHoxdccCZ_9Cezk"]

\* Lines 377-383: /files reads file_cache under the lock and returns
\* ListFilesResponse.
ListFiles(r) ==
    /\ reader[r].pc = "locked"
    /\ reader[r].route = "files"
    /\ Release(r)
    /\ reader' = [reader EXCEPT ![r] = NewReader]
    /\ UNCHANGED <<now, fs, file_cache, uuids, conv, sweep,
                   inserted, completed, admitted>>

\* Lines 388-390: /status reads file_cache under the lock, and leaves the
\* with block.
Status(r) ==
    /\ reader[r].pc = "locked"
    /\ reader[r].route = "status"
    /\ Release(r)
    /\ reader' = [reader EXCEPT ![r].pc = "version"]
    /\ UNCHANGED <<now, fs, file_cache, uuids, conv, sweep,
                   inserted, completed, admitted>>

\* Lines 392-400: get_ffmpeg_version returns, after the child
\* "ffmpeg -version" has exited on the first call of the process, from its
\* lru_cache on the later ones, and /status returns StatusResponse.
StatusReturn(r) ==
    /\ reader[r].pc = "version"
    /\ reader' = [reader EXCEPT ![r] = NewReader]
    /\ UNCHANGED <<now, fs, file_cache, cache_lock, uuids, conv, sweep,
                   inserted, completed, admitted>>

(***************************************************************************)
(* Faults of the environment.                                              *)
(***************************************************************************)
\* A file of UPLOAD_DIR or OUTPUT_DIR is removed by something other than the
\* program.
ExternalRemove ==
    /\ \E path \in DOMAIN fs : fs' = RemoveFile(fs, path)
    /\ UNCHANGED <<now, file_cache, cache_lock, uuids, conv, sweep, reader,
                   inserted, completed, admitted>>

\* Line 248 raises (the disk is full, say): video_file.save leaves a part
\* of the upload or nothing, and the except block of lines 328-337 runs.
ConvertSaveFails(t, partial) ==
    /\ conv[t].pc = "save"
    /\ uuids < MaxUuid
    /\ uuids' = uuids + 1
    /\ LET video_path == Path("uploads", uuids + 1, Extension(conv[t].upload_name))
           call == [conv[t] EXCEPT !.video_path = video_path]
           after == IF partial THEN WriteFile(fs, video_path, 0) ELSE fs
       IN  /\ fs' = ExceptHandler(after, call)
           /\ conv' = [conv EXCEPT ![t] = Return(call, Failure(500, "save failed"))]
    /\ UNCHANGED <<now, file_cache, cache_lock, sweep, reader,
                   inserted, completed, admitted>>

\* Line 107 raises (ffprobe cannot be started): no ffprobe child runs,
\* get_video_duration returns 0 (lines 110-112), and the call goes from the
\* save of line 248 to the start of ffmpeg without waiting.
ProbeRaises(t) ==
    /\ conv[t].pc = "save"
    /\ uuids < MaxUuid
    /\ uuids' = uuids + 1
    /\ LET unique_id == uuids + 1
           video_path == Path("uploads", unique_id, Extension(conv[t].upload_name))
           saved == [conv[t] EXCEPT
                       !.video_path = video_path,
                       !.output_path = Path("converted", unique_id, "mp3")]
       IN  /\ conv' = [conv EXCEPT ![t] = FfmpegStarted(saved)]
           /\ fs' = WriteFile(fs, video_path, FileSize(conv[t].bytes))
    /\ UNCHANGED <<now, file_cache, cache_lock, sweep, reader,
                   inserted, completed, admitted>>

\* Line 289 raises (ffmpeg cannot be started): no child runs, and the
\* except block of lines 328-337 runs.
FfmpegRaises(t) ==
    /\ conv[t].pc = "ffmpeg"
    /\ fs' = ExceptHandler(fs, conv[t])
    /\ conv' = [conv EXCEPT ![t] =
         Return([conv[t] EXCEPT !.transcoded = FALSE],
                Failure(500, "ffmpeg not started"))]
    /\ UNCHANGED <<now, file_cache, cache_lock, uuids, sweep, reader,
                   inserted, completed, admitted>>

(***************************************************************************)
(* Specifications.                                                         *)
(***************************************************************************)
ConvertStep(t, requests) ==
    \/ \E req \in requests : ConvertRequest(t, req)
    \/ ConvertLookupAcquire(t)
    \/ ConvertLookup(t)
    \/ ConvertSave(t)
    \/ ConvertInsertAcquire(t)
    \/ ConvertInsert(t)
    \/ ConvertRespond(t)

\* A child of thread t exits: ffprobe, or ffmpeg in one of the ways given.
ChildExit(t, outcomes) ==
    \/ ProbeExit(t)
    \/ \E outcome \in outcomes : FfmpegExit(t, outcome)

SweepStep(s) ==
    \/ SweepStart(s)
    \/ SweepAcquire(s)
    \/ SweepIterate(s)
    \/ SweepDelete(s)
    \/ SweepTemp(s)

ReaderStep(r) ==
    \/ \E route \in {"download", "files", "status"}, filename \in OutputNames :
           ReaderRequest(r, route, filename)
    \/ ReaderAcquire(r)
    \/ DownloadTouch(r)
    \/ DownloadExists(r)
    \/ DownloadSendFile(r)
    \/ ListFiles(r)
    \/ Status(r)
    \/ StatusReturn(r)

\* The steps of the program with the request threads ts, which receive the
\* requests of the set given, and whose ffmpeg children end in the ways given.
Program(ts, requests, outcomes) ==
    \/ Tick
    \/ \E t \in ts : ConvertStep(t, requests)
    \/ \E t \in ts : ChildExit(t, outcomes)
    \/ \E s \in SweepThreads : SweepStep(s)

\* The requests of the second client that leave format and bitrate to
\* their defaults.
PlainRequests ==
    {r \in ConvertRequests : r.client # RateClient /\ r.params = <<None, None>>}

\* The well-formed ones among them that are not too large.
GoodRequests == {r \in PlainRequests : Rejection(r) = NoResponse}

Next == Program({"convert_1"}, PlainRequests, FfmpegOutcomes)

\* One request thread and the sweep, with no fault of the environment.
Spec == Init /\ [][Next]_vars

NextRace ==
    Program(ConvertThreads, {r \in PlainRequests : r.bytes = 1}, FfmpegOutcomes)

\* Two request threads that are sent the same content, and the sweep.
SpecRace == Init /\ [][NextRace]_vars

NextServe ==
    \/ Program({"convert_1"}, GoodRequests, {<<0, "data">>, <<1, "none">>})
    \/ \E r \in ReaderThreads : ReaderStep(r)

\* One request thread, the sweep, and a thread serving the other routes.
SpecServe == Init /\ [][NextServe]_vars

Fault ==
    \/ ExternalRemove
    \/ \E s \in SweepThreads : SweepRemoveFails(s)
    \/ \E partial \in BOOLEAN : ConvertSaveFails("convert_1", partial)
    \/ ProbeRaises("convert_1")
    \/ FfmpegRaises("convert_1")

NextEnv ==
    \/ Program({"convert_1"}, {r \in PlainRequests : r.bytes # 2}, FfmpegOutcomes)
    \/ Fault

\* The program in an environment where files disappear and calls fail.
SpecEnv == Init /\ [][NextEnv]_vars

\* The requests of RateClient: well-formed, of one content, with the
\* default format and bitrate.
RateRequests ==
    {r \in ConvertRequests :
        /\ r.client = RateClient
        /\ Rejection(r) = NoResponse
        /\ r.bytes = 1
        /\ r.params = <<None, None>>}

NextRate == Program({"convert_1"}, RateRequests, {<<0, "data">>, <<1, "none">>})

\* One request thread that serves the calls of RateClient, and the sweep.
SpecRate == Init /\ [][NextRate]_vars

NextSweep ==
    Program({"convert_1"}, {r \in GoodRequests : r.bytes = 1}, {<<0, "data">>})

\* One request thread that is sent one content, and the sweep, with the
\* scheduling of the threads: time moves on, a handler inside the with
\* block of cache_lock leaves it, and the cleanup thread, which loops for
\* ever (lines 162-165), gets the lock when it is free again and again.
SpecSweep ==
    /\ Init
    /\ [][NextSweep]_vars
    /\ WF_vars(Tick)
    /\ WF_vars(ConvertLookup("convert_1"))
    /\ WF_vars(ConvertInsert("convert_1"))
    /\ \A s \in SweepThreads : SF_vars(SweepStep(s))

NextSweepFail ==
    \/ Program({"convert_1"}, GoodRequests, {<<0, "data">>})
    \/ \E s \in SweepThreads : SweepRemoveFails(s)

\* One request thread that is sent two contents, and a sweep whose
\* os.remove may raise.
SpecSweepFail == Init /\ [][NextSweepFail]_vars

\* The well-formed requests of one content with every format and bitrate.
ParamRequests ==
    {r \in ConvertRequests :
        r.client # RateClient /\ Rejection(r) = NoResponse /\ r.bytes = 1}

NextParams == Program({"convert_1"}, ParamRequests, {<<0, "data">>, <<1, "none">>})

\* One request thread that is sent every format and bitrate, and the sweep.
SpecParams == Init /\ [][NextParams]_vars

\* Spec with the scheduling of the threads: a thread that can take a step
\* takes one, and a thread waiting for cache_lock gets it when it is free
\* again and again.  Nothing makes the ffmpeg child exit: line 289 passes
\* no timeout to subprocess.run.
SpecLive ==
    /\ Spec
    /\ WF_vars(Tick)
    /\ SF_vars(ConvertStep("convert_1", PlainRequests))
    /\ \A s \in SweepThreads : SF_vars(SweepStep(s))

(***************************************************************************)
(* The claims.                                                             *)
(***************************************************************************)
\* Thread t takes the step that evaluates the cache lookup of line 226.
LooksUp(t) == conv[t].pc = "lookup" /\ conv'[t].pc # "lookup"

\* The lookup step of t ends the call with a hit on the file named.
HitsOn(t, filename) ==
    /\ conv'[t].pc = "done"
    /\ conv'[t].response.success
    /\ conv'[t].response.cached
    /\ conv'[t].response.filename = filename

\* C1: Dedup idempotence.  When a call looks up a digest for which calls
\* that had returned before this one arrived produced an artifact
\* (cached = False), and the digest has not been evicted since, the call is
\* a hit (it never starts ffmpeg) and returns that same artifact.
C1_DedupIdempotence ==
    [][\A t \in ConvertThreads :
         LET firsts == conv[t].prior \cap completed[conv[t].file_hash]
         IN  LooksUp(t) /\ firsts # {} =>
               \A artifact \in firsts : HitsOn(t, artifact)]_vars

\* C2: Cache insert is idempotent.  When the digest has a live entry (its
\* file exists) as a call reaches line 306, the insert leaves the entry's
\* output_path as it was.
C2_InsertIdempotent ==
    [][\A t \in ConvertThreads :
         /\ conv[t].pc = "insert"
         /\ conv'[t].pc = "respond"
         /\ IsHit(file_cache, fs, conv[t].file_hash)
         => GetItem(file_cache', conv[t].file_hash).output_path
              = GetItem(file_cache, conv[t].file_hash).output_path]_vars

\* A request handler is reading file_cache: it holds the lock in the
\* lookup of /convert, or in /download, /files or /status.
Reading(x) ==
    \/ x \in ConvertThreads /\ conv[x].pc = "lookup"
    \/ x \in ReaderThreads /\ reader[x].pc = "locked"

\* C3: The sweep's removal of a file and of its entry appear atomic.  No
\* handler that is reading file_cache finds an entry whose file the sweep
\* has removed: every entry it can find has its file.
C3_SweepAtomic ==
    \A x \in ConvertThreads \cup ReaderThreads :
        Reading(x) => \A i \in DOMAIN file_cache : exists(fs, file_cache[i].output_path)

\* /download is touching the entry of a file that a sweep, which has read
\* the time and waits for the lock, will find expired.
C3_Witness ==
    \E r \in ReaderThreads, s \in SweepThreads :
        /\ reader[r].pc = "locked"
        /\ reader[r].route = "download"
        /\ sweep[s].pc = "lock_wait"
        /\ \E i \in Matches(file_cache, reader[r].filename) :
               sweep[s].current_time - file_cache[i].last_accessed > CACHE_EXPIRY

\* C4: Eviction boundary.  When a sweep that read the time now ends its
\* pass, every entry with now - last_accessed > CACHE_EXPIRY is gone from
\* file_cache with its file, and every other entry is still there,
\* unchanged, with its file.
C4_EvictionBoundary ==
    [][\A s \in SweepThreads :
         sweep[s].pc = "iterate" /\ sweep'[s].pc = "temp" =>
           \A i \in DOMAIN file_cache :
             LET data == file_cache[i]
             IN  IF sweep[s].current_time - data.last_accessed > CACHE_EXPIRY
                 THEN /\ data.key \notin Keys(file_cache')
                      /\ ~exists(fs', data.output_path)
                 ELSE /\ \E j \in DOMAIN file_cache' : file_cache'[j] = data
                      /\ exists(fs', data.output_path)]_vars

\* A sweep has passed over an entry of age CACHE_EXPIRY + 1, whose file it
\* has removed, and over one of age CACHE_EXPIRY, and is about to delete
\* the keys it noted.
C4_Witness ==
    \E s \in SweepThreads :
        /\ sweep[s].pc = "iterate"
        /\ sweep[s].i > Len(file_cache)
        /\ \E i, j \in DOMAIN file_cache :
             /\ sweep[s].current_time - file_cache[i].last_accessed = CACHE_EXPIRY + 1
             /\ sweep[s].current_time - file_cache[j].last_accessed = CACHE_EXPIRY
             /\ file_cache[i].key \in {sweep[s].expired_keys[k] : k \in DOMAIN sweep[s].expired_keys}
             /\ ~exists(fs, file_cache[i].output_path)

\* C5: Stale-storage lookup.  A lookup of a digest whose entry's file no
\* longer exists is a miss, and the lookup removes the entry.
C5_StaleEntryDropped ==
    [][\A t \in ConvertThreads :
         /\ LooksUp(t)
         /\ conv[t].file_hash \in Keys(file_cache)
         /\ ~exists(fs, GetItem(file_cache, conv[t].file_hash).output_path)
         => /\ conv'[t].pc = "save"
            /\ conv[t].file_hash \notin Keys(file_cache')]_vars

\* C6: Scratch cleanup.  When a call has returned, whatever its outcome,
\* the upload it saved to UPLOAD_DIR does not exist.
C6_ScratchCleanup ==
    \A t \in ConvertThreads :
        conv[t].pc = "done" /\ conv[t].video_path # NoPath =>
            ~exists(fs, conv[t].video_path)

\* A call that saved its upload has returned a failure.
C6_Witness ==
    \E t \in ConvertThreads :
        /\ conv[t].pc = "done"
        /\ conv[t].video_path # NoPath
        /\ ~conv[t].response.success
        /\ conv[t].transcoded

\* C7: Insert visibility.  Once an insert for a digest has completed, a
\* lookup of the digest is a hit on the entry inserted, until a sweep
\* evicts the digest.
C7_InsertVisible ==
    [][\A t \in ConvertThreads :
         LooksUp(t) =>
           \A path \in inserted[conv[t].file_hash] : HitsOn(t, basename(path))]_vars

\* C8: Timeout enforcement.  A call that waits for its ffmpeg child does
\* not wait for ever: the child exits or is terminated.
C8_TranscodeReturns ==
    \A t \in ConvertThreads : conv[t].pc = "ffmpeg" ~> conv[t].pc # "ffmpeg"

\* C9: A call that fails leaves the cache as it was.  A call that returns a
\* failure has created no entry and changed none, at its last step or at
\* any step before, and a request that is too large is rejected in its
\* first step, which touches neither the files, nor the cache, nor its
\* lock, and draws no name.
C9_FailureLeavesCache ==
    [][\A t \in ConvertThreads :
         conv'[t] # conv[t] /\ conv'[t].pc = "done" /\ ~conv'[t].response.success =>
           /\ ~conv'[t].wrote
           /\ file_cache' = file_cache
           /\ conv'[t].response.error = "File too large" =>
                /\ conv[t].pc \in {"idle", "done"}
                /\ UNCHANGED <<fs, cache_lock, uuids>>]_vars

\* C10: Output verification.  A call reaches the insert of line 306 only
\* with an output file that exists and is not empty.
C10_OutputVerified ==
    \A t \in ConvertThreads :
        conv[t].pc = "insert" =>
            /\ exists(fs, conv[t].output_path)
            /\ fs[conv[t].output_path] > 0

\* C11: Rate window admission.  A client that has started RateQuota calls
\* within the window (here: at one reading of the clock) has its next call
\* rejected before any pipeline work starts: the call does not go on to
\* hashing and the cache lookup.
C11_RateWindowAdmission ==
    [][\A t \in ConvertThreads :
         admitted = RateQuota /\ conv[t].pc \in {"idle", "done"} =>
           ~(conv'[t].pc = "lookup_wait" /\ conv'[t].client = RateClient)]_vars

\* C12: Parameter normalization.  Whatever format and bitrate a call
\* requests, the call goes on from saving its upload to ffprobe and to the
\* transcode, and
\* ffmpeg is invoked with a format and a bitrate of the allow-lists: the
\* value requested when it is in the allow-list, the default (mp3, 192k)
\* when it is not.
C12_ParamsNormalized ==
    [][\A t \in ConvertThreads :
         /\ conv[t].pc = "save" /\ conv'[t] # conv[t] => conv'[t].pc = "ffprobe"
         /\ conv[t].pc = "ffprobe" /\ conv'[t] # conv[t] =>
           LET format == conv[t].params[1]
               bitrate == conv[t].params[2]
               command == conv'[t].ffmpeg_command
           IN  /\ conv'[t].pc = "ffmpeg"
               /\ command[1] \in {"128k", "192k", "256k", "320k"}
               /\ command[2] \in {"mp3", "aac", "wav", "ogg"}
               /\ command[1] = IF bitrate \in {"128k", "192k", "256k", "320k"}
                               THEN bitrate ELSE "192k"
               /\ command[2] = IF format \in {"mp3", "aac", "wav", "ogg"}
                               THEN format ELSE "mp3"]_vars

\* ffmpeg runs for a call that asked for a format and a bitrate outside the
\* allow-lists.
C12_Witness ==
    \E t \in ConvertThreads :
        /\ conv[t].pc = "ffmpeg"
        /\ conv[t].params = <<"flac", "64k">>
        /\ conv[t].ffmpeg_command = <<"192k", "mp3">>

\* C13: The cache lock is not held during the transcode.  While a call
\* saves its upload and runs ffprobe and ffmpeg (lines 239-294), cache_lock
\* is free or held by another thread.
C13_LockFreeWhileTranscoding ==
    \A t \in ConvertThreads :
        conv[t].pc \in {"save", "ffprobe", "ffmpeg"} => cache_lock # t

\* ffmpeg runs for a call while the sweep holds the lock and passes over
\* the entries.
C13_Witness ==
    \E t \in ConvertThreads, s \in SweepThreads :
        /\ conv[t].pc = "ffmpeg"
        /\ cache_lock = s
        /\ sweep[s].pc = "iterate"
        /\ file_cache # <<>>

\* The entry of digest d has not been accessed for more than CACHE_EXPIRY.
Overdue(d) ==
    /\ d \in Keys(file_cache)
    /\ now - GetItem(file_cache, d).last_accessed > CACHE_EXPIRY

\* C14: Recurring sweep.  The cleanup thread ends a pass of the sweep again
\* and again, and an entry that has not been accessed for more than
\* CACHE_EXPIRY does not stay: it is evicted, unless it is accessed or
\* replaced first.
C14_SweepRecurs ==
    /\ \A s \in SweepThreads : []<>(sweep[s].pc = "temp")
    /\ \A d \in Digests : Overdue(d) ~> ~Overdue(d)

\* A pass of the sweep that read the time after CACHE_EXPIRY has emptied
\* the cache and removed the file that a call had returned.
C14_Witness ==
    \E s \in SweepThreads, t \in ConvertThreads :
        /\ sweep[s].pc = "temp"
        /\ sweep[s].current_time > CACHE_EXPIRY
        /\ file_cache = <<>>
        /\ conv[t].pc = "done"
        /\ conv[t].response.success
        /\ ~exists(fs, Path("converted", conv[t].response.filename[1],
                                          conv[t].response.filename[2]))

\* C15: Sweep failure isolation.  A pass of the sweep in which os.remove
\* raised for some entries goes on to its end; when it ends, those entries
\* are still in file_cache, unchanged and with their files, and every
\* other expired entry is gone with its file.
C15_SweepFailureIsolated ==
    [][\A s \in SweepThreads :
         /\ sweep'[s] # sweep[s] /\ sweep[s].pc = "iterate" /\ sweep'[s].pc = "iterate" =>
               sweep'[s].i = sweep[s].i + 1
         /\ sweep[s].pc = "iterate" /\ sweep'[s].pc # "iterate" =>
               /\ sweep[s].i > Len(file_cache)
               /\ \A i \in DOMAIN file_cache :
                    LET data == file_cache[i]
                    IN  IF data.key \in sweep[s].failed
                        THEN /\ \E j \in DOMAIN file_cache' : file_cache'[j] = data
                             /\ exists(fs', data.output_path)
                        ELSE Expired(sweep[s].current_time, data) =>
                               /\ data.key \notin Keys(file_cache')
                               /\ ~exists(fs', data.output_path)]_vars

\* A pass is at its end in which os.remove raised for one expired entry and
\* removed the file of another.
C15_Witness ==
    \E s \in SweepThreads :
        /\ sweep[s].pc = "iterate"
        /\ sweep[s].i > Len(file_cache)
        /\ sweep[s].failed # {}
        /\ sweep[s].expired_keys # <<>>
        /\ \E i \in DOMAIN file_cache :
             /\ file_cache[i].key \in sweep[s].failed
             /\ exists(fs, file_cache[i].output_path)

\* C16: Cache-hit frame.  A call that ends in a cache hit has written no
\* upload and started no ffprobe or ffmpeg, and its lookup changes nothing
\* but the last_accessed of the entry it hits: the files, the keys, their
\* order and every other entry stay as they were.
C16_CacheHitFrame ==
    [][\A t \in ConvertThreads :
         LooksUp(t) /\ conv'[t].response.cached =>
           /\ fs' = fs
           /\ uuids' = uuids
           /\ conv'[t].video_path = NoPath
           /\ ~conv'[t].probed
           /\ ~conv'[t].transcoded
           /\ Len(file_cache') = Len(file_cache)
           /\ \A i \in DOMAIN file_cache :
                IF file_cache[i].key = conv[t].file_hash
                THEN /\ file_cache'[i].key = file_cache[i].key
                     /\ file_cache'[i].output_path = file_cache[i].output_path
                ELSE file_cache'[i] = file_cache[i]]_vars

\* A call has ended in a hit, at a time after the entries were inserted,
\* while the cache holds the entries of two digests.
C16_Witness ==
    \E t \in ConvertThreads :
        /\ conv[t].pc = "done"
        /\ conv[t].response.cached
        /\ Len(file_cache) = 2
        /\ \E i, j \in DOMAIN file_cache :
             file_cache[i].last_accessed = now /\ file_cache[j].last_accessed < now

\* C17: Recency is monotonic and refreshed by every access.  The
\* last_accessed of an entry that stays in file_cache never decreases; a
\* cache hit of /convert and a /download of the entry's file set it to the
\* current time; and an entry is evicted only by a pass of the sweep that
\* read a time more than CACHE_EXPIRY after the entry's last access.
C17_RecencyRefreshed ==
    [][/\ \A d \in Keys(file_cache) \cap Keys(file_cache') :
            GetItem(file_cache', d).last_accessed >= GetItem(file_cache, d).last_accessed
       /\ \A t \in ConvertThreads :
            LooksUp(t) /\ IsHit(file_cache, fs, conv[t].file_hash) =>
              GetItem(file_cache', conv[t].file_hash).last_accessed = now
       /\ \A r \in ReaderThreads :
            reader[r].pc = "locked" /\ reader[r].route = "download" /\ reader'[r] # reader[r] =>
              \A i \in Matches(file_cache, reader[r].filename) :
                  file_cache'[i].last_accessed = now
       /\ \A d \in Keys(file_cache) \ Keys(file_cache') :
            \E s \in SweepThreads :
                /\ sweep[s].pc = "iterate"
                /\ sweep[s].current_time - GetItem(file_cache, d).last_accessed > CACHE_EXPIRY]_vars

\* /download has touched an entry that a pass of the sweep, which read the
\* time before the touch and now holds the lock, would have found expired.
C17_Witness ==
    \E r \in ReaderThreads, s \in SweepThreads :
        /\ reader[r].pc = "exists"
        /\ sweep[s].pc = "iterate"
        /\ sweep[s].current_time > CACHE_EXPIRY
        /\ \E i \in Matches(file_cache, reader[r].filename) :
             /\ file_cache[i].last_accessed = now
             /\ sweep[s].current_time - file_cache[i].last_accessed <= CACHE_EXPIRY
             /\ exists(fs, file_cache[i].output_path)

\* C18: The cache is keyed by the digest only.  A call whose content has
\* an entry with its file is a hit on that entry, with cached = True and
\* no transcode, whatever format and bitrate the call asks for.
C18_KeyedByDigestOnly ==
    [][\A t \in ConvertThreads :
         LooksUp(t) /\ IsHit(file_cache, fs, conv[t].file_hash) =>
           /\ HitsOn(t, basename(GetItem(file_cache, conv[t].file_hash).output_path))
           /\ ~conv'[t].transcoded]_vars

\* A call that asks for wav at 320k looks up a content whose entry holds an
\* mp3 file.
C18_Witness ==
    \E t \in ConvertThreads :
        /\ conv[t].pc = "lookup"
        /\ conv[t].params = <<"wav", "320k">>
        /\ IsHit(file_cache, fs, conv[t].file_hash)
        /\ GetItem(file_cache, conv[t].file_hash).output_path[3] = "mp3"

\* No call is between its request and its return, and no sweep is inside
\* its pass.
Quiescent ==
    /\ \A t \in ConvertThreads : conv[t].pc \in {"idle", "done"}
    /\ \A s \in SweepThreads : sweep[s].pc \in {"sleep", "temp"}

\* C19: No orphaned artifacts.  When no call and no sweep is under way,
\* every file of OUTPUT_DIR is the output_path of an entry of file_cache.
C19_NoOrphans ==
    Quiescent =>
        \A path \in DOMAIN fs :
            path[1] = "converted" =>
                \E i \in DOMAIN file_cache : file_cache[i].output_path = path

\* C20: Distinct records never share storage.  No two entries of
\* file_cache have the same output_path.
C20_DistinctStorage ==
    \A i, j \in DOMAIN file_cache :
        i # j => file_cache[i].output_path # file_cache[j].output_path

\* The cache holds the entries of two contents, each with its file, while a
\* pass of the sweep has found the first of them expired and removed its
\* file.
C20_Witness ==
    \E s \in SweepThreads :
        /\ Len(file_cache) = 2
        /\ sweep[s].pc = "iterate"
        /\ sweep[s].i = 2
        /\ sweep[s].expired_keys = <<file_cache[1].key>>
        /\ ~exists(fs, file_cache[1].output_path)
        /\ exists(fs, file_cache[2].output_path)

====
